---- MODULE Spec2Model ----
(***************************************************************************)
(* Back-in-stock notification app.                                         *)
(*   - webhook handler for inventory_levels/update (two route variants),   *)
(*   - /notify request-submission endpoint.                                *)
(* The NotificationRequest store (metaobjects of type                      *)
(* back_in_stock_request) is shared by all invocations; every await of the *)
(* webhook handler is one step, so invocations interleave at the awaits.   *)
(***************************************************************************)
EXTENDS Integers, Sequences, FiniteSets

\* ---------------------------------------------------------------- bounds
MaxReq == 3          \* most records the store holds in the model
NumInv == 2          \* webhook invocations in one behaviour

\* ------------------------------------------------------ program constants
PageSize == 100      \* metaobjects(type: ..., first: 100)

Invs == 1..NumInv

\* ------------------------------------------------------------- JS values
\* A JS value that ends up in a metaobject field or an identifier: its type
\* tag and its decimal/text rendering.
Undefined == [t |-> "undefined", v |-> ""]
NumberV(s) == [t |-> "number", v |-> s]
StringV(s) == [t |-> "string", v |-> s]

\* !x is false
Truthy(x) ==
  /\ x.t # "undefined"
  /\ ~(x.t = "number" /\ x.v = "0")
  /\ ~(x.t = "string" /\ x.v = "")

\* x.toString() / String(x)
toString(x) == [t |-> "string", v |-> x.v]

\* gid.split("/").pop() on "gid://shopify/<Type>/<id>"
Gid(type, id) == <<"gid:", "", "shopify", type, id>>
SplitPop(g) == StringV(g[Len(g)])

\* payload.available: undefined or an integer
NoQty == [t |-> "undefined", n |-> 0]
Qty(n) == [t |-> "number", n |-> n]

\* (mutant) only a negative quantity counts as out of stock
StillOutOfStock_NegativeOnly(available) ==
  available.t = "number" /\ available.n < 0

\* !available || available <= 0
StillOutOfStock(available) ==
  \/ available.t = "undefined"
  \/ available.n = 0
  \/ available.n <= 0

\* ------------------------------------------------------------ environment
\* The catalog: inventory item -> variant (null when the item has none).
Items == {"111", "113"}
NullVariant == [id |-> <<>>, product |-> [id |-> <<>>, title |-> "", handle |-> ""]]
Catalog(item) ==
  CASE item = "111" -> [id |-> Gid("ProductVariant", "42"),
                        product |-> [id |-> Gid("Product", "99"),
                                     title |-> "Wool Sweater",
                                     handle |-> "wool-sweater"]]
    [] OTHER -> NullVariant

\* Inbound payloads: in-stock events for every item, and events with an
\* absent, zero or negative quantity.
Events ==
  [inventory_item_id : Items, available : {Qty(5)}]
    \cup [inventory_item_id : {"111"}, available : {NoQty, Qty(0), Qty(-1)}]
Routes == {"primary", "legacy"}

\* /notify request bodies
EmailInputs == {Undefined, StringV("a@x.com")}
ProductInputs == {Undefined, NumberV("99")}
VariantInputs == {Undefined, NumberV("42"), StringV("43")}
Bodies == [email : EmailInputs, product_id : ProductInputs, variant_id : VariantInputs]
Today == "2026-01-01"

ConfigValues == {Undefined, StringV("set")}
Configs == [accountId : ConfigValues, passcode : ConfigValues, region : ConfigValues]

\* ------------------------------------------------------------------ state
VARIABLES
  store,        \* the back_in_stock_request metaobjects, in creation order;
                \* a record's id is its position
  shopConfig,   \* the shop's clevertap metafields
  inv,          \* per webhook invocation: position and locals
  notify        \* last /notify call: parsed body and response

vars == <<store, shopConfig, inv, notify>>

NoVariantYet == NullVariant

IdleInv ==
  [pc |-> "idle", route |-> "primary",
   event |-> [inventory_item_id |-> "113", available |-> NoQty],
   variant |-> NoVariantYet,
   allRequests |-> <<>>, matching |-> <<>>, k |-> 0,
   status |-> 0, body |-> "", outcome |-> "none", failedAt |-> "none",
   queries |-> 0, attempts |-> <<>>, sent |-> <<>>, updated |-> <<>>]

NoNotify == [parsed |-> FALSE, body |-> [email |-> Undefined, product_id |-> Undefined,
                                         variant_id |-> Undefined],
             status |-> 0, response |-> "none"]

Init ==
  /\ store = <<>>
  /\ shopConfig \in Configs
  /\ inv = [i \in Invs |-> IdleInv]
  /\ notify = NoNotify

\* ------------------------------------------------------- webhook handler
\* return new Response(body, { status })
Respond(r, status, body, outcome) ==
  [r EXCEPT !.pc = "done", !.status = status, !.body = body, !.outcome = outcome]

\* (mutant) the catch block acknowledges with 200
Catch_Ok(r, at) ==
  [Respond(r, 200, "OK", "failed") EXCEPT !.failedAt = at]

\* catch (err) { return new Response("Webhook error", { status: 500 }) }
Catch(r, at) ==
  [Respond(r, 500, "Webhook error", "failed") EXCEPT !.failedAt = at]

Min(a, b) == IF a <= b THEN a ELSE b

VariantId(r) == SplitPop(r.variant.id)
ProductId(r) == SplitPop(r.variant.product.id)

\* metaobjects(type: "back_in_stock_request", first: 100) { nodes { id fields } }
FetchNodes(st) ==
  [n \in 1..Min(Len(st), PageSize) |-> [id |-> n, fields |-> st[n]]]

\* (mutant) the filter forgets the status test
Matches_AnyStatus(req, variantId) ==
  toString(req.fields.variant_id) = toString(variantId)

\* the filter predicate of matchingRequests
Matches(req, variantId) ==
  /\ toString(req.fields.variant_id) = toString(variantId)
  /\ req.fields.status = "pending"

\* (mutant) the variant is queried before the event is authenticated
Receive_LateAuth(i) ==
  /\ inv[i].pc = "idle"
  /\ \A j \in Invs : j < i => inv[j].pc # "idle"
  /\ \E ev \in Events, route \in Routes, ok \in BOOLEAN :
       LET r == [inv[i] EXCEPT !.event = ev, !.route = route]
       IN inv' = [inv EXCEPT ![i] =
            IF ~ok THEN Catch([r EXCEPT !.queries = @ + 1], "auth")
            ELSE IF StillOutOfStock(ev.available)
              THEN Respond(r, 200, "OK", "still-out-of-stock")
            ELSE [r EXCEPT !.pc = IF route = "legacy" THEN "session" ELSE "resolve"]]
  /\ UNCHANGED <<store, shopConfig, notify>>

\* authenticate.webhook(request), then the out-of-stock early exit
Receive(i) ==
  /\ inv[i].pc = "idle"
  /\ \A j \in Invs : j < i => inv[j].pc # "idle"
  /\ \E ev \in Events, route \in Routes, ok \in BOOLEAN :
       LET r == [inv[i] EXCEPT !.event = ev, !.route = route]
       IN inv' = [inv EXCEPT ![i] =
            IF ~ok THEN Catch(r, "auth")
            ELSE IF StillOutOfStock(ev.available)
              THEN Respond(r, 200, "OK", "still-out-of-stock")
            ELSE [r EXCEPT !.pc = IF route = "legacy" THEN "session" ELSE "resolve"]]
  /\ UNCHANGED <<store, shopConfig, notify>>

\* legacy route only: shopify.sessionStorage.loadSession(`offline_${shop}`)
LoadSession(i) ==
  /\ inv[i].pc = "session"
  /\ \E res \in {"throws", "null", "session"} :
       inv' = [inv EXCEPT ![i] =
            CASE res = "throws" -> Catch(@, "session")
              [] res = "null" -> Respond(@, 200, "No session", "no-session")
              [] OTHER -> [@ EXCEPT !.pc = "resolve"]]
  /\ UNCHANGED <<store, shopConfig, notify>>

\* (mutant) no not-found exit: variant.id is read from null and throws
ResolveVariant_NoNullCheck(i) ==
  /\ inv[i].pc = "resolve"
  /\ \E ok \in BOOLEAN :
       LET r == [inv[i] EXCEPT !.queries = @ + 1]
           variant == Catalog(r.event.inventory_item_id)
       IN inv' = [inv EXCEPT ![i] =
            IF ~ok THEN Catch(r, "resolve")
            ELSE IF variant = NullVariant
              THEN Catch(r, "variant")
            ELSE [r EXCEPT !.variant = variant, !.pc = "config"]]
  /\ UNCHANGED <<store, shopConfig, notify>>

\* query getInventoryItem, the not-found exit, the id extraction
ResolveVariant(i) ==
  /\ inv[i].pc = "resolve"
  /\ \E ok \in BOOLEAN :
       LET r == [inv[i] EXCEPT !.queries = @ + 1]
           variant == Catalog(r.event.inventory_item_id)
       IN inv' = [inv EXCEPT ![i] =
            IF ~ok THEN Catch(r, "resolve")
            ELSE IF variant = NullVariant
              THEN Respond(r, 200, "OK", "no-variant")
            ELSE [r EXCEPT !.variant = variant, !.pc = "config"]]
  /\ UNCHANGED <<store, shopConfig, notify>>

\* the shop metafield read; each field possibly absent
getCleverTapConfig(cfg) ==
  [accountId |-> cfg.accountId, passcode |-> cfg.passcode, region |-> cfg.region]

\* (mutant) the not-configured test leaves out region
GetConfig_RegionOptional(i) ==
  /\ inv[i].pc = "config"
  /\ \E ok \in BOOLEAN :
       LET r == [inv[i] EXCEPT !.queries = @ + 1]
           c == getCleverTapConfig(shopConfig)
       IN inv' = [inv EXCEPT ![i] =
            IF ~ok THEN Catch(r, "config")
            ELSE IF ~Truthy(c.accountId) \/ ~Truthy(c.passcode)
              THEN Respond(r, 200, "OK", "not-configured")
            ELSE [r EXCEPT !.pc = "fetch"]]
  /\ UNCHANGED <<store, shopConfig, notify>>

\* (mutant) the handler polls the metafields until all three are set
GetConfig_WaitsForConfig(i) ==
  /\ inv[i].pc = "config"
  /\ Truthy(shopConfig.accountId) /\ Truthy(shopConfig.passcode)
  /\ Truthy(shopConfig.region)
  /\ \E ok \in BOOLEAN :
       LET r == [inv[i] EXCEPT !.queries = @ + 1]
       IN inv' = [inv EXCEPT ![i] =
            IF ~ok THEN Catch(r, "config") ELSE [r EXCEPT !.pc = "fetch"]]
  /\ UNCHANGED <<store, shopConfig, notify>>

GetConfig(i) ==
  /\ inv[i].pc = "config"
  /\ \E ok \in BOOLEAN :
       LET r == [inv[i] EXCEPT !.queries = @ + 1]
           c == getCleverTapConfig(shopConfig)
       IN inv' = [inv EXCEPT ![i] =
            IF ~ok THEN Catch(r, "config")
            ELSE IF ~Truthy(c.accountId) \/ ~Truthy(c.passcode) \/ ~Truthy(c.region)
              THEN Respond(r, 200, "OK", "not-configured")
            ELSE [r EXCEPT !.pc = "fetch"]]
  /\ UNCHANGED <<store, shopConfig, notify>>

\* fetch the metaobjects, filter, the no-matches exit
FetchRequests(i) ==
  /\ inv[i].pc = "fetch"
  /\ \E ok \in BOOLEAN :
       LET r == [inv[i] EXCEPT !.queries = @ + 1]
           allRequests == FetchNodes(store)
           matchingRequests ==
             SelectSeq(allRequests, LAMBDA req : Matches(req, VariantId(r)))
       IN inv' = [inv EXCEPT ![i] =
            IF ~ok THEN Catch(r, "fetch")
            ELSE IF Len(matchingRequests) = 0
              THEN Respond([r EXCEPT !.allRequests = allRequests], 200, "OK", "no-matches")
            ELSE [r EXCEPT !.allRequests = allRequests,
                           !.matching = matchingRequests,
                           !.k = 1, !.pc = "dispatch"]]
  /\ UNCHANGED <<store, shopConfig, notify>>

\* (mutant) the update writes nothing
metaobjectUpdate_Noop(st, id) == st

\* (mutant) the update replaces the field list instead of setting one field
metaobjectUpdate_Replace(st, id) ==
  [st EXCEPT ![id] = [email |-> Undefined, product_id |-> Undefined,
                      variant_id |-> Undefined, status |-> "notified",
                      created_at |-> ""]]

\* mutation markNotified: fields: [{ key: "status", value: "notified" }]
metaobjectUpdate(st, id) == [st EXCEPT ![id].status = "notified"]

\* (mutant) all events are sent first, the statuses are updated afterwards
sendCleverTapBackInStockEvent_Batch(r, resOk) ==
  LET req == r.matching[r.k]
      tried == [r EXCEPT !.attempts = Append(@, req.id)]
  IN IF ~resOk THEN Catch(tried, "dispatch")
     ELSE IF r.k < Len(r.matching)
       THEN [tried EXCEPT !.sent = Append(@, req.id), !.k = @ + 1]
     ELSE [tried EXCEPT !.sent = Append(@, req.id), !.pc = "update"]

\* (mutant) a failed send is logged and the loop goes on to the next request
sendCleverTapBackInStockEvent_Continue(r, resOk) ==
  LET req == r.matching[r.k]
      tried == [r EXCEPT !.attempts = Append(@, req.id)]
  IN IF ~resOk
       THEN IF r.k < Len(r.matching)
              THEN [tried EXCEPT !.k = @ + 1, !.failedAt = "dispatch"]
              ELSE Catch(tried, "dispatch")
     ELSE [tried EXCEPT !.sent = Append(@, req.id), !.pc = "update"]

\* sendCleverTapBackInStockEvent for the k-th matching request
sendCleverTapBackInStockEvent(r, resOk) ==
  LET req == r.matching[r.k]
      tried == [r EXCEPT !.attempts = Append(@, req.id)]
  IN IF ~resOk THEN Catch(tried, "dispatch")
     ELSE [tried EXCEPT !.sent = Append(@, req.id), !.pc = "update"]

\* (mutant) the status update is issued before the response is checked
SendEvent_MarksFirst(i) ==
  /\ inv[i].pc = "dispatch"
  /\ \E resOk \in BOOLEAN :
       /\ inv' = [inv EXCEPT ![i] = sendCleverTapBackInStockEvent(@, resOk)]
       /\ store' = IF resOk THEN store
                   ELSE metaobjectUpdate(store, inv[i].matching[inv[i].k].id)
  /\ UNCHANGED <<shopConfig, notify>>

SendEvent(i) ==
  /\ inv[i].pc = "dispatch"
  /\ \E resOk \in BOOLEAN :
       inv' = [inv EXCEPT ![i] = sendCleverTapBackInStockEvent(@, resOk)]
  /\ UNCHANGED <<store, shopConfig, notify>>

\* (mutant) the update is conditional: a record no longer pending is skipped
MarkNotified_IfPending(i) ==
  /\ inv[i].pc = "update"
  /\ \E ok \in BOOLEAN :
       LET r == [inv[i] EXCEPT !.queries = @ + 1]
           req == r.matching[r.k]
           swapped == store[req.id].status = "pending"
       IN IF ~ok
          THEN /\ inv' = [inv EXCEPT ![i] = Catch(r, "update")]
               /\ store' = store
          ELSE /\ store' = IF swapped THEN metaobjectUpdate(store, req.id) ELSE store
               /\ inv' = [inv EXCEPT ![i] =
                    LET u == IF swapped THEN [r EXCEPT !.updated = Append(@, req.id)]
                             ELSE r
                    IN IF r.k = Len(r.matching)
                         THEN Respond(u, 200, "OK", "completed")
                         ELSE [u EXCEPT !.k = @ + 1, !.pc = "dispatch"]]
  /\ UNCHANGED <<shopConfig, notify>>

\* (mutant) the matching requests are fetched again after every update
MarkNotified_Refetch(i) ==
  /\ inv[i].pc = "update"
  /\ \E ok \in BOOLEAN :
       LET r == [inv[i] EXCEPT !.queries = @ + 1]
           req == r.matching[r.k]
           after == metaobjectUpdate(store, req.id)
           fresh == SelectSeq(FetchNodes(after),
                              LAMBDA q : Matches(q, VariantId(r)))
       IN IF ~ok
          THEN /\ inv' = [inv EXCEPT ![i] = Catch(r, "update")]
               /\ store' = store
          ELSE /\ store' = after
               /\ inv' = [inv EXCEPT ![i] =
                    LET u == [r EXCEPT !.updated = Append(@, req.id)]
                    IN IF Len(fresh) = 0
                         THEN Respond(u, 200, "OK", "completed")
                         ELSE [u EXCEPT !.matching = fresh, !.k = 1, !.pc = "dispatch"]]
  /\ UNCHANGED <<shopConfig, notify>>

\* (mutant) the write lands although the call throws
MarkNotified_WritesThenThrows(i) ==
  /\ inv[i].pc = "update"
  /\ \E ok \in BOOLEAN :
       LET r == [inv[i] EXCEPT !.queries = @ + 1]
           req == r.matching[r.k]
       IN /\ store' = metaobjectUpdate(store, req.id)
          /\ IF ~ok
             THEN inv' = [inv EXCEPT ![i] = Catch(r, "update")]
             ELSE inv' = [inv EXCEPT ![i] =
                    LET u == [r EXCEPT !.updated = Append(@, req.id)]
                    IN IF r.k = Len(r.matching)
                         THEN Respond(u, 200, "OK", "completed")
                         ELSE [u EXCEPT !.k = @ + 1, !.pc = "dispatch"]]
  /\ UNCHANGED <<shopConfig, notify>>

MarkNotified(i) ==
  /\ inv[i].pc = "update"
  /\ \E ok \in BOOLEAN :
       LET r == [inv[i] EXCEPT !.queries = @ + 1]
           req == r.matching[r.k]
       IN IF ~ok
          THEN /\ inv' = [inv EXCEPT ![i] = Catch(r, "update")]
               /\ store' = store
          ELSE /\ store' = metaobjectUpdate(store, req.id)
               /\ inv' = [inv EXCEPT ![i] =
                    LET u == [r EXCEPT !.updated = Append(@, req.id)]
                    IN IF r.k = Len(r.matching)
                         THEN Respond(u, 200, "OK", "completed")
                         ELSE [u EXCEPT !.k = @ + 1, !.pc = "dispatch"]]
  /\ UNCHANGED <<shopConfig, notify>>

\* ------------------------------------------------------ /notify endpoint
\* (mutant) the presence test leaves out variant_id
MissingFields_NoVariant(b) ==
  ~Truthy(b.email) \/ ~Truthy(b.product_id)

MissingFields(b) ==
  ~Truthy(b.email) \/ ~Truthy(b.product_id) \/ ~Truthy(b.variant_id)

NewRequest(b) ==
  [email |-> b.email,
   product_id |-> toString(b.product_id),
   variant_id |-> toString(b.variant_id),
   status |-> "pending",
   created_at |-> Today]

\* One call of the /notify action on store st: the response and the store
\* it leaves. req.parsed is whether request.json() yields an object;
\* req.result is how authenticate.public.appProxy and metaobjectCreate answer.
NotifyResults == {"auth-throws", "graphql-throws", "userErrors", "created"}
NotifyRequests ==
  [parsed : {FALSE}, body : {NoNotify.body}, result : {"created"}]
    \cup [parsed : {TRUE}, body : {b \in Bodies : MissingFields(b)}, result : {"created"}]
    \cup [parsed : {TRUE}, body : {b \in Bodies : ~MissingFields(b)}, result : NotifyResults]

notifyAction(st, req) ==
  IF ~req.parsed
    THEN [status |-> 500, response |-> "Internal server error", store |-> st]
  ELSE IF MissingFields(req.body)
    THEN [status |-> 400, response |-> "Missing required fields", store |-> st]
  ELSE IF req.result \in {"auth-throws", "graphql-throws"}
    THEN [status |-> 500, response |-> "Internal server error", store |-> st]
  ELSE IF req.result = "userErrors"
    THEN [status |-> 400, response |-> "errors", store |-> st]
  ELSE [status |-> 200, response |-> "success",
        store |-> Append(st, NewRequest(req.body))]

\* A storefront submission arriving while webhooks run.
Notify ==
  /\ \E req \in NotifyRequests :
       LET out == notifyAction(store, req)
       IN /\ Len(out.store) <= MaxReq
          /\ store' = out.store
  /\ UNCHANGED <<shopConfig, inv, notify>>

\* The same call with the request and the response kept for inspection.
Submit ==
  /\ \E req \in NotifyRequests :
       LET out == notifyAction(store, req)
       IN /\ Len(out.store) <= MaxReq
          /\ store' = out.store
          /\ notify' = [parsed |-> req.parsed, body |-> req.body,
                        status |-> out.status, response |-> out.response]
  /\ UNCHANGED <<shopConfig, inv>>

\* ---------------------------------------------------------- specification
Next ==
  \/ \E i \in Invs : Receive(i)
  \/ \E i \in Invs : LoadSession(i)
  \/ \E i \in Invs : ResolveVariant(i)
  \/ \E i \in Invs : GetConfig(i)
  \/ \E i \in Invs : FetchRequests(i)
  \/ \E i \in Invs : SendEvent(i)
  \/ \E i \in Invs : MarkNotified(i)
  \/ Notify

Spec == Init /\ [][Next]_vars

\* Every external call of a started invocation eventually returns or throws:
\* the next step of an invocation that has one is eventually taken.
Step(i) ==
  \/ LoadSession(i)
  \/ ResolveVariant(i)
  \/ GetConfig(i)
  \/ FetchRequests(i)
  \/ SendEvent(i)
  \/ MarkNotified(i)

SpecLive == Init /\ [][Next]_vars /\ \A i \in Invs : WF_vars(Step(i))

\* Invocations that do not overlap: an event is received only when no other
\* invocation is between its first and its last step.
Quiet == \A j \in Invs : inv[j].pc \in {"idle", "done"}

ReceiveAlone(i) == Quiet /\ Receive(i)

NextSeq ==
  \/ \E i \in Invs : ReceiveAlone(i)
  \/ \E i \in Invs : LoadSession(i)
  \/ \E i \in Invs : ResolveVariant(i)
  \/ \E i \in Invs : GetConfig(i)
  \/ \E i \in Invs : FetchRequests(i)
  \/ \E i \in Invs : SendEvent(i)
  \/ \E i \in Invs : MarkNotified(i)
  \/ Notify

SpecSeq == Init /\ [][NextSeq]_vars

\* The /notify endpoint alone, called on any store the app can have built.
StoredRequests ==
  [email : {StringV("a@x.com")}, product_id : {StringV("99")},
   variant_id : {StringV("42"), StringV("43")},
   status : {"pending", "notified"}, created_at : {Today}]

StoresUpTo(n) == UNION {[1..m -> StoredRequests] : m \in 0..n}

InitNotify ==
  /\ store \in StoresUpTo(MaxReq - 1)
  /\ shopConfig \in Configs
  /\ inv = [i \in Invs |-> IdleInv]
  /\ notify = NoNotify

NextNotify == Submit

SpecNotify == InitNotify /\ [][NextNotify]_vars

\* A shop that has already notified many customers: the store starts with
\* PageSize - 1 notified records, followed by up to two more records.
OldRequest ==
  [email |-> StringV("a@x.com"), product_id |-> StringV("99"),
   variant_id |-> StringV("42"), status |-> "notified", created_at |-> Today]

InitPage ==
  /\ store \in {[n \in 1..(PageSize - 1) |-> OldRequest] \o tail :
                  tail \in StoresUpTo(2)}
  /\ shopConfig = [accountId |-> StringV("set"), passcode |-> StringV("set"),
                   region |-> StringV("set")]
  /\ inv = [i \in Invs |-> IdleInv]
  /\ notify = NoNotify

NextPage ==
  \/ \E i \in Invs : Receive(i)
  \/ \E i \in Invs : LoadSession(i)
  \/ \E i \in Invs : ResolveVariant(i)
  \/ \E i \in Invs : GetConfig(i)
  \/ \E i \in Invs : FetchRequests(i)
  \/ \E i \in Invs : SendEvent(i)
  \/ \E i \in Invs : MarkNotified(i)

SpecPage == InitPage /\ [][NextPage]_vars

\* ================================================================ claims
Started(i) == inv[i].pc # "idle"
Done(i) == inv[i].pc = "done"
Threw(i) == inv[i].failedAt # "none"
Range(q) == {q[n] : n \in DOMAIN q}
Count(q, x) == Cardinality({n \in DOMAIN q : q[n] = x})

\* The id the event's inventory item resolves to, read off the catalog.
ResolvedId(i) == Catalog(inv[i].event.inventory_item_id).id[5]

\* The fetched records that are pending requests for the resolved variant.
PendingForVariant(i) ==
  {n \in DOMAIN inv[i].allRequests :
     /\ inv[i].allRequests[n].fields.variant_id.v = ResolvedId(i)
     /\ inv[i].allRequests[n].fields.status = "pending"}

\* C1: an invocation that completes has dispatched and updated exactly the
\* fetched pending requests of the resolved variant, one dispatch and one
\* update each, and at no point has it dispatched or updated another record.
C1_ExactlyMatching ==
  \A i \in Invs :
    /\ Range(inv[i].attempts) \subseteq PendingForVariant(i)
    /\ Range(inv[i].updated) \subseteq PendingForVariant(i)
    /\ inv[i].outcome = "completed" =>
         /\ Range(inv[i].attempts) = PendingForVariant(i)
         /\ Range(inv[i].updated) = PendingForVariant(i)
         /\ Len(inv[i].attempts) = Cardinality(PendingForVariant(i))
         /\ Len(inv[i].updated) = Cardinality(PendingForVariant(i))
         /\ inv[i].sent = inv[i].attempts

C1_Witness ==
  \E i \in Invs :
    /\ inv[i].outcome = "completed"
    /\ Cardinality(PendingForVariant(i)) = 2
    /\ Len(inv[i].allRequests) = 3

\* C2: every request has at most one marketing dispatch over all
\* invocations, and no step dispatches for a request whose stored status is
\* already notified.
RECURSIVE SentBy(_, _)
SentBy(r, n) == IF n = 0 THEN 0 ELSE Count(inv[n].sent, r) + SentBy(r, n - 1)
TotalSent(r) == SentBy(r, NumInv)

C2_AtMostOneDispatch ==
  /\ [](\A r \in DOMAIN store : TotalSent(r) <= 1)
  /\ [][\A i \in Invs : \A r \in DOMAIN store :
          store[r].status = "notified" =>
            Count(inv'[i].sent, r) = Count(inv[i].sent, r)]_vars

\* C3: when the dispatch for the k-th matching request throws, the matching
\* requests before it are notified, the k-th and later ones are still
\* pending, and the response is the 500 acknowledgment (stated while no later
\* invocation has started).
C3_PartialBatch ==
  \A i \in Invs :
    (inv[i].failedAt = "dispatch" /\ \A j \in Invs : j > i => ~Started(j)) =>
      /\ inv[i].status = 500
      /\ inv[i].body = "Webhook error"
      /\ \A n \in DOMAIN inv[i].matching :
           store[inv[i].matching[n].id].status =
             IF n < Len(inv[i].attempts) THEN "notified" ELSE "pending"

C3_Witness ==
  \E i \in Invs :
    /\ inv[i].failedAt = "dispatch"
    /\ \A j \in Invs : j > i => ~Started(j)
    /\ Len(inv[i].matching) = 3
    /\ Len(inv[i].attempts) = 2

\* C4: a redelivery of an event whose earlier invocation completed, with no
\* record created between the two fetches, dispatches nothing, updates
\* nothing and, unless a call throws, answers 200 on the no-matches exit.
Redelivery(i, j) ==
  /\ i < j
  /\ inv[i].outcome = "completed"
  /\ inv[j].event = inv[i].event
  /\ Len(inv[j].allRequests) = Len(inv[i].allRequests)

C4_RedeliveryIdempotent ==
  \A i, j \in Invs :
    Redelivery(i, j) =>
      /\ inv[j].attempts = <<>>
      /\ inv[j].updated = <<>>
      /\ inv[j].pc \notin {"dispatch", "update"}
      /\ (Done(j) /\ ~Threw(j)) =>
           (inv[j].status = 200 /\ inv[j].outcome = "no-matches")

C4_Witness ==
  \E i, j \in Invs :
    /\ Redelivery(i, j)
    /\ inv[j].outcome = "no-matches"
    /\ Len(inv[i].updated) = 2

\* C5 (as stated): 500 exactly when a step threw; every other response is
\* 200 with the one body "OK".
C5_SameBodyOnEveryExit ==
  \A i \in Invs :
    Done(i) =>
      /\ inv[i].status = 500 <=> Threw(i)
      /\ ~Threw(i) => (inv[i].status = 200 /\ inv[i].body = "OK")

\* C5 (amended): 500 exactly when a step threw; every other response is 200;
\* the body is "OK" on the still-out-of-stock, no-variant, not-configured,
\* no-matches and completed exits, and "No session" on the no-session exit,
\* which only the route that loads the stored session has.
PlainExits ==
  {"still-out-of-stock", "no-variant", "not-configured", "no-matches", "completed"}

C5_StatusByOutcome ==
  \A i \in Invs :
    Done(i) =>
      /\ inv[i].status \in {200, 500}
      /\ inv[i].status = 500 <=> Threw(i)
      /\ inv[i].status = 500 <=> inv[i].outcome = "failed"
      /\ inv[i].status = 500 => inv[i].body = "Webhook error"
      /\ inv[i].status = 200 => inv[i].outcome \in PlainExits \cup {"no-session"}
      /\ inv[i].outcome \in PlainExits => inv[i].body = "OK"
      /\ inv[i].outcome = "no-session" =>
           (inv[i].body = "No session" /\ inv[i].route = "legacy")

C5_Witness ==
  \E i, j \in Invs :
    /\ inv[i].status = 500 /\ inv[i].failedAt = "update"
    /\ inv[j].status = 200 /\ inv[j].outcome = "no-session"

\* C6: an invocation whose event has an absent, zero or negative quantity
\* ends at its first step having made no catalog call and no dispatch, and
\* answers 200 "OK" unless authentication threw.
NonPositive(available) == available.t = "undefined" \/ available.n < 1

C6_OutOfStockNoEffect ==
  \A i \in Invs :
    (Started(i) /\ NonPositive(inv[i].event.available)) =>
      /\ Done(i)
      /\ inv[i].queries = 0
      /\ inv[i].attempts = <<>>
      /\ inv[i].updated = <<>>
      /\ inv[i].failedAt \in {"none", "auth"}
      /\ ~Threw(i) => (inv[i].status = 200 /\ inv[i].body = "OK"
                         /\ inv[i].outcome = "still-out-of-stock")

C6_Witness ==
  \E i \in Invs :
    /\ inv[i].outcome = "still-out-of-stock"
    /\ inv[i].event.available = Qty(0)
    /\ \A f \in DOMAIN shopConfig : shopConfig[f] # Undefined
    /\ \E r \in DOMAIN store :
         store[r].variant_id.v = "42" /\ store[r].status = "pending"

\* C7: an in-stock event whose item has no variant never gets past the
\* variant query: no dispatch, no update, and the answer is 200 unless a call
\* threw; the not-found exit itself is a 200, never the 500.
Unresolved(i) ==
  /\ Started(i)
  /\ ~NonPositive(inv[i].event.available)
  /\ Catalog(inv[i].event.inventory_item_id) = NullVariant

C7_NoVariantNoEffect ==
  \A i \in Invs :
    Unresolved(i) =>
      /\ inv[i].pc \in {"session", "resolve", "done"}
      /\ inv[i].attempts = <<>>
      /\ inv[i].updated = <<>>
      /\ inv[i].failedAt \in {"none", "auth", "session", "resolve"}
      /\ (Done(i) /\ ~Threw(i)) =>
           (inv[i].status = 200 /\ inv[i].outcome \in {"no-variant", "no-session"})

C7_Witness ==
  \E i \in Invs :
    /\ Unresolved(i)
    /\ inv[i].outcome = "no-variant"
    /\ inv[i].status = 200
    /\ Len(store) > 0

\* C8: with any of accountId, passcode, region absent, no invocation fetches
\* requests, dispatches or updates, and an invocation that reaches the
\* config test answers 200.
NotConfigured == \E f \in {"accountId", "passcode", "region"} : shopConfig[f] = Undefined

C8_NotConfiguredNoEffect ==
  NotConfigured =>
    \A i \in Invs :
      /\ inv[i].pc \notin {"fetch", "dispatch", "update"}
      /\ inv[i].attempts = <<>>
      /\ inv[i].updated = <<>>
      /\ inv[i].outcome \notin {"no-matches", "completed"}
      /\ (Done(i) /\ ~Threw(i)) => inv[i].status = 200

C8_Witness ==
  /\ shopConfig.region = Undefined
  /\ shopConfig.accountId # Undefined
  /\ shopConfig.passcode # Undefined
  /\ \E i \in Invs : inv[i].outcome = "not-configured" /\ inv[i].status = 200
  /\ \E r \in DOMAIN store :
       store[r].variant_id.v = "42" /\ store[r].status = "pending"

\* C9: an invocation whose authentication threw answers 500 and has made no
\* catalog query, no dispatch and no update.
C9_AuthFailureNoProcessing ==
  \A i \in Invs :
    inv[i].failedAt = "auth" =>
      /\ Done(i)
      /\ inv[i].status = 500
      /\ inv[i].queries = 0
      /\ inv[i].allRequests = <<>>
      /\ inv[i].attempts = <<>>
      /\ inv[i].updated = <<>>

C9_Witness ==
  \E i \in Invs :
    /\ inv[i].failedAt = "auth"
    /\ inv[i].event.available = Qty(5)
    /\ \E r \in DOMAIN store : store[r].status = "pending"

\* C10: a /notify call changes the store only by appending one pending
\* record, and only when email, product_id and variant_id are all present;
\* with one of them missing it answers 400 and leaves the store as it was;
\* the records already stored are kept as they are.
C10_SubmissionOnlyAppendsPending ==
  [][ /\ store' # store =>
           /\ notify'.parsed
           /\ notify'.body.email # Undefined
           /\ notify'.body.product_id # Undefined
           /\ notify'.body.variant_id # Undefined
           /\ Len(store') = Len(store) + 1
           /\ store'[Len(store')].status = "pending"
      /\ (/\ notify'.parsed
          /\ \/ notify'.body.email = Undefined
             \/ notify'.body.product_id = Undefined
             \/ notify'.body.variant_id = Undefined)
           => (notify'.status = 400 /\ store' = store)
      /\ Len(store') >= Len(store)
      /\ \A n \in DOMAIN store : store'[n] = store[n] ]_vars

C10_Witness ==
  /\ notify.status = 200
  /\ Len(store) = MaxReq
  /\ store[1].status = "notified"
  /\ store[Len(store)].status = "pending"

\* Ids of the requests an invocation matched, in loop order.
MatchedIds(i) == [n \in DOMAIN inv[i].matching |-> inv[i].matching[n].id]
Prefix(q, n) == SubSeq(q, 1, n)

\* C11: the status update is unconditional: whatever the stored status is
\* at that moment, an update that does not throw leaves the record notified
\* and is counted as an update of the invocation; a dispatch depends only on
\* the status the invocation fetched.
C11_UnconditionalUpdate ==
  /\ [](\A i \in Invs : \A r \in Range(inv[i].sent) :
          inv[i].allRequests[r].fields.status = "pending")
  /\ [][\A i \in Invs :
          (inv[i].pc = "update" /\ inv'[i] # inv[i] /\ inv'[i].failedAt = "none") =>
            LET id == inv[i].matching[inv[i].k].id
            IN /\ store'[id].status = "notified"
               /\ inv'[i].updated = Append(inv[i].updated, id)]_vars

\* Two invocations have both sent the event for one request that neither
\* has yet marked notified.
C11_Witness ==
  \E i, j \in Invs : \E r \in DOMAIN store :
    /\ i # j
    /\ inv[i].pc = "update" /\ inv[j].pc = "update"
    /\ inv[i].matching[inv[i].k].id = r
    /\ inv[j].matching[inv[j].k].id = r
    /\ r \in Range(inv[i].sent) /\ r \in Range(inv[j].sent)
    /\ store[r].status = "pending"
    /\ TotalSent(r) = 2

\* C12: a notified record has a successful dispatch recorded for it, and a
\* record turns notified only in the update step of an invocation whose last
\* successful dispatch was for that record.
C12_NotifiedOnlyAfterDispatch ==
  /\ [](\A r \in DOMAIN store : store[r].status = "notified" => TotalSent(r) >= 1)
  /\ [][\A r \in DOMAIN store :
          (store[r].status = "pending" /\ store'[r].status = "notified") =>
            \E i \in Invs :
              /\ inv[i].pc = "update"
              /\ inv'[i] # inv[i]
              /\ Len(inv[i].sent) > 0
              /\ inv[i].sent[Len(inv[i].sent)] = r]_vars

C12_Witness ==
  \E r \in DOMAIN store : \E i \in Invs :
    /\ store[r].status = "notified"
    /\ inv[i].failedAt = "dispatch"
    /\ r \in Range(inv[i].updated)

\* C13: within an invocation the updates follow the dispatches one by one:
\* the updated requests are the successfully dispatched ones except, while
\* the update is pending, the last; a dispatch starts only when every
\* earlier matched request has been dispatched and updated.
C13_OneAtATime ==
  \A i \in Invs :
    /\ Len(inv[i].sent) - Len(inv[i].updated) \in {0, 1}
    /\ inv[i].updated = Prefix(inv[i].sent, Len(inv[i].updated))
    /\ inv[i].pc = "update" => Len(inv[i].sent) = Len(inv[i].updated) + 1
    /\ inv[i].pc = "dispatch" =>
         /\ inv[i].sent = inv[i].updated
         /\ inv[i].sent = Prefix(MatchedIds(i), inv[i].k - 1)
         /\ inv[i].attempts = inv[i].sent

C13_Witness ==
  \E i \in Invs :
    /\ inv[i].pc = "dispatch"
    /\ inv[i].k = 2
    /\ inv[i].updated = <<inv[i].matching[1].id>>
    /\ Len(inv[i].matching) = 3

\* C14: an invocation whose k-th dispatch threw is finished with exactly k
\* dispatch attempts (the first k matched requests, each once) and k-1
\* updates (the first k-1), and it takes no further step.
C14_AbortOnFailedDispatch ==
  /\ [](\A i \in Invs :
          inv[i].failedAt = "dispatch" =>
            /\ Done(i)
            /\ \E k \in DOMAIN inv[i].matching :
                 /\ inv[i].attempts = Prefix(MatchedIds(i), k)
                 /\ inv[i].sent = Prefix(MatchedIds(i), k - 1)
                 /\ inv[i].updated = Prefix(MatchedIds(i), k - 1))
  /\ [][\A i \in Invs : Done(i) => inv'[i] = inv[i]]_vars

C14_Witness ==
  \E i \in Invs :
    /\ inv[i].failedAt = "dispatch"
    /\ Len(inv[i].matching) = 3
    /\ Len(inv[i].attempts) = 2
    /\ Len(inv[i].updated) = 1

\* C15: a fetch made while fewer than PageSize requests are pending matches
\* every stored pending request of the resolved variant, however many
\* notified records the store holds.
PendingCount == Cardinality({r \in DOMAIN store : store[r].status = "pending"})

C15_AllPendingMatched ==
  [][\A i \in Invs :
       (/\ inv[i].pc = "fetch" /\ inv'[i].pc # "fetch"
        /\ inv'[i].failedAt = "none"
        /\ PendingCount < PageSize) =>
         {inv'[i].matching[n].id : n \in DOMAIN inv'[i].matching} =
           {r \in DOMAIN store :
              /\ store[r].status = "pending"
              /\ store[r].variant_id.v = ResolvedId(i)}]_vars

\* C16: every started invocation eventually ends; an ended invocation of
\* the primary route has one of the outcomes still-out-of-stock, no-variant,
\* not-configured, no-matches, completed, failed (the route that loads the
\* stored session also has no-session); one that entered the loop either
\* completed it or stopped at the first throw.
TerminalOutcomes(route) ==
  PlainExits \cup {"failed"} \cup (IF route = "legacy" THEN {"no-session"} ELSE {})

C16_Terminates ==
  /\ \A i \in Invs : Started(i) ~> Done(i)
  /\ [](\A i \in Invs :
          /\ Done(i) <=> inv[i].outcome # "none"
          /\ Done(i) => inv[i].outcome \in TerminalOutcomes(inv[i].route)
          /\ (Done(i) /\ Len(inv[i].matching) > 0) =>
               \/ /\ inv[i].outcome = "completed"
                  /\ inv[i].updated = MatchedIds(i)
               \/ /\ inv[i].outcome = "failed"
                  /\ inv[i].failedAt \in {"dispatch", "update"}
                  /\ Len(inv[i].attempts) = Len(inv[i].updated) + 1)

C16_Witness ==
  \A i \in Invs :
    /\ Done(i)
    /\ inv[i].route = "primary"
    /\ Len(inv[i].matching) > 0

\* C17: a webhook step keeps the number of records and every field other
\* than status; the only change it makes is status := notified on a request
\* the stepping invocation matched; no step of any kind turns a notified
\* record back to pending or removes a record.
C17_WebhookOnlySetsNotified ==
  [][ /\ \A n \in DOMAIN store :
           /\ n \in DOMAIN store'
           /\ store[n].status = "notified" => store'[n].status = "notified"
      /\ inv' # inv =>
           /\ Len(store') = Len(store)
           /\ \A n \in DOMAIN store :
                \/ store'[n] = store[n]
                \/ /\ store'[n] = [store[n] EXCEPT !.status = "notified"]
                   /\ \E i \in Invs :
                        /\ inv'[i] # inv[i]
                        /\ n \in Range(MatchedIds(i)) ]_vars

C17_Witness ==
  \E i \in Invs :
    /\ inv[i].outcome = "completed"
    /\ Len(store) = 3
    /\ \E n, m \in DOMAIN store :
         /\ store[n].status = "notified"
         /\ n \in Range(inv[i].updated)
         /\ store[m].status = "pending"
         /\ store[m].variant_id.v = "43"

\* C18: an invocation whose k-th status update threw answers 500 with the
\* first k matched requests dispatched and only the first k-1 updated; until
\* another invocation starts, request k and the later ones are still pending;
\* the next delivery of the same event, once it has fetched, has matched
\* request k again, and when it completes request k has two dispatches.
C18_UpdateFailureRedispatch ==
  \A i \in Invs :
    inv[i].failedAt = "update" =>
      /\ Done(i)
      /\ inv[i].status = 500
      /\ \E k \in DOMAIN inv[i].matching :
           /\ inv[i].attempts = Prefix(MatchedIds(i), k)
           /\ inv[i].sent = Prefix(MatchedIds(i), k)
           /\ inv[i].updated = Prefix(MatchedIds(i), k - 1)
           /\ (\A j \in Invs : j > i => ~Started(j)) =>
                \A n \in k..Len(inv[i].matching) :
                  store[inv[i].matching[n].id].status = "pending"
           /\ (/\ i + 1 \in Invs
               /\ inv[i + 1].event = inv[i].event
               /\ inv[i + 1].allRequests # <<>>) =>
                /\ inv[i].matching[k].id \in Range(MatchedIds(i + 1))
                /\ inv[i + 1].outcome = "completed" =>
                     /\ Count(inv[i + 1].sent, inv[i].matching[k].id) = 1
                     /\ TotalSent(inv[i].matching[k].id) >= 2

C18_Witness ==
  \E i \in Invs :
    /\ inv[i].failedAt = "update"
    /\ i + 1 \in Invs
    /\ inv[i + 1].outcome = "completed"
    /\ Len(inv[i].matching) = 2
    /\ Len(inv[i].sent) = 1
    /\ TotalSent(inv[i].matching[1].id) = 2

\* C19: when invocations do not overlap and no status update has thrown, no
\* request has more than one successful dispatch.
C19_AtMostOnceWhenSequential ==
  (\A i \in Invs : inv[i].failedAt # "update") =>
    \A r \in DOMAIN store : TotalSent(r) <= 1

C19_Witness ==
  \E i, j \in Invs :
    /\ i < j
    /\ inv[i].failedAt = "dispatch"
    /\ Len(inv[i].sent) = 1
    /\ Len(inv[i].matching) = 3
    /\ inv[j].outcome = "completed"
    /\ Len(inv[j].sent) = 2
    /\ \A r \in DOMAIN store : TotalSent(r) = 1

\* C20: an invocation dispatches and updates only records of the snapshot it
\* fetched: a record created after the fetch is not touched by it, and such
\* a record turns notified only in a step of an invocation whose snapshot
\* holds it.
C20_SnapshotOnly ==
  /\ [](\A i \in Invs :
          \A r \in Range(inv[i].attempts) \cup Range(inv[i].updated)
                     \cup Range(MatchedIds(i)) :
            r <= Len(inv[i].allRequests))
  /\ [][\A r \in DOMAIN store :
          (store[r].status = "pending" /\ store'[r].status = "notified") =>
            \E i \in Invs :
              /\ inv'[i] # inv[i]
              /\ r <= Len(inv[i].allRequests)]_vars

C20_Witness ==
  \E i \in Invs :
    /\ inv[i].outcome = "completed"
    /\ Len(inv[i].allRequests) = 1
    /\ Len(store) = 2
    /\ store[2].status = "pending"
    /\ store[2].variant_id.v = "42"
    /\ \A j \in Invs : j # i => ~Started(j)

====
